---- MODULE Spec2Model ----
(***************************************************************************)
(* Article-Search-Pipeline: the fused-embedding indexer (milvus_insert.py), *)
(* the hybrid query engine (milvus_search.py) and the part of the crawler   *)
(* that fills the relational store (crawl_all_articles.py).                 *)
(*                                                                         *)
(* Dates are day ordinals (integers), a date range is <<start, end>>.       *)
(* A query is the sequence of its words, joined by single spaces.           *)
(* Embedding components are integers; the weights are in tenths, so a fused *)
(* vector is ten times the floating-point value the code computes.          *)
(* A call of an entry point is one step; what it raised or returned and its *)
(* locals stay readable until the script exits.                             *)
(***************************************************************************)
EXTENDS Integers, Sequences, FiniteSets, Bags, TLC

VARIABLES
    articles,           \* MySQL table articles: row i has id i (AUTO_INCREMENT)
    article_summaries,  \* MySQL table article_summaries: ids that have a row
    collection,         \* the Milvus collection: [exists, dim, entities]
    pc,                 \* the entry point that has just run, "idle" between runs
    outcome,            \* how that call ended: "returned" or "raised"
    index_run,          \* locals of insert_weighted_embeddings when it ended
    search_run,         \* locals of search_articles when it ended
    query,              \* the query text given to parse_date_filter
    now,                \* datetime.now(), as a day ordinal
    date_range          \* the value parse_date_filter returned

vars == <<articles, article_summaries, collection, pc, outcome, index_run,
          search_run, query, now, date_range>>

\* Python's None and SQL's NULL are the empty tuple; a date d is <<d>> where it
\* may be absent
None == <<>>
NULL == <<>>

-----------------------------------------------------------------------------
(* Bounds of the model *)

MaxQueryLen == 5        \* words in a query
MaxDrift == 1           \* the clock is read at Today .. Today + MaxDrift
Today == 100            \* day ordinal of the earliest clock reading
MaxArticles == 2        \* rows the crawler stores
MaxBatch == MaxArticles     \* articles in one indexing batch
MaxEntities == MaxArticles  \* entities the collection holds
MaxLimit == MaxArticles     \* the limit of a search
OtherDim == 512         \* a declared dimension that is not the indexer's

-----------------------------------------------------------------------------
(* Query text *)

Words == {"last", "Past", "week", "weeks", "month", "months", "days", "2",
          "cancer", "yesterday", "year"}

\* str.lower() of one word
Lower(w) == IF w = "Past" THEN "past" ELSE w

\* w.startswith(p), for the words and prefixes of the model
StartsWith(w, p) ==
    \/ w = p
    \/ w = "weeks" /\ p = "week"
    \/ w = "months" /\ p = "month"

\* w.endswith(s)
EndsWith(w, s) == w = s

\* s in w, for a string s without a space
HasSubstring(w, s) == StartsWith(w, s) \/ EndsWith(w, s)

\* query.lower()
LowerQuery(q) == [i \in DOMAIN q |-> Lower(q[i])]

\* "a b" in text: a word ending in a directly followed by a word starting with b
ContainsPhrase(text, a, b) ==
    \E i \in 1..(Len(text) - 1) : EndsWith(text[i], a) /\ StartsWith(text[i + 1], b)

\* a in text, a without a space
ContainsWord(text, a) == \E i \in DOMAIN text : HasSubstring(text[i], a)

\* \d+ matches the whole word
IsDigits(w) == w \in {"2"}

\* int(w)
IntOf(w) == IF w = "2" THEN 2 ELSE 0

Units == {"days", "weeks", "months"}

\* (last|past)\s(\d+)\s(days|weeks|months) with re.IGNORECASE matches at word i
MatchesAt(q, i) ==
    /\ i + 2 <= Len(q)
    /\ \E s \in {"last", "past"} : EndsWith(Lower(q[i]), s)
    /\ IsDigits(q[i + 1])
    /\ \E u \in Units : StartsWith(Lower(q[i + 2]), u)

\* re.search: the leftmost match, 0 when there is none
ReSearch(q) ==
    IF \E i \in DOMAIN q : MatchesAt(q, i)
    THEN CHOOSE i \in DOMAIN q :
            MatchesAt(q, i) /\ \A j \in 1..(i - 1) : ~MatchesAt(q, j)
    ELSE 0

\* match.group(3).lower()
UnitOf(w) == CHOOSE u \in Units : StartsWith(Lower(w), u)

\* timedelta for a duration and a unit, in days
Timedelta(duration, unit) ==
    CASE unit = "days" -> duration
      [] unit = "weeks" -> 7 * duration
      [] unit = "months" -> 30 * duration

\* dateparser.parse(query): the whole text read as one date, None otherwise;
\* of the vocabulary it reads "yesterday" and the relative phrase "last year"
DateparserParse(q, clock) ==
    IF q = <<"yesterday">> THEN <<clock - 1>>
    ELSE IF LowerQuery(q) = <<"last", "year">> THEN <<clock - 365>>
    ELSE None

\* parse_date_filter with the numeric pattern tried before the fixed phrases
parse_date_filter_pattern_first(q, clock) ==
    LET text == LowerQuery(q)
        m == ReSearch(q)
    IN
    IF m # 0
    THEN <<clock - Timedelta(IntOf(q[m + 1]), UnitOf(q[m + 2])), clock>>
    ELSE IF ContainsPhrase(text, "last", "week") THEN <<clock - 7, clock>>
    ELSE IF ContainsPhrase(text, "last", "month") THEN <<clock - 30, clock>>
    ELSE IF ContainsWord(text, "last") \/ ContainsWord(text, "past") THEN None
    ELSE
        LET parsed_date == DateparserParse(q, clock) IN
        IF parsed_date # None THEN <<parsed_date[1], clock>> ELSE None

parse_date_filter(q, clock) ==
    LET text == LowerQuery(q) IN
    IF ContainsPhrase(text, "last", "week") THEN <<clock - 7, clock>>
    ELSE IF ContainsPhrase(text, "last", "month") THEN <<clock - 30, clock>>
    ELSE IF ContainsWord(text, "last") \/ ContainsWord(text, "past") THEN
        LET m == ReSearch(q) IN
        IF m # 0
        THEN <<clock - Timedelta(IntOf(q[m + 1]), UnitOf(q[m + 2])), clock>>
        ELSE None
    ELSE
        LET parsed_date == DateparserParse(q, clock) IN
        IF parsed_date # None THEN <<parsed_date[1], clock>> ELSE None

-----------------------------------------------------------------------------
(* Relational store *)

\* the publication dates the crawler scrapes; None when the page shows none
PubDates == {None, <<Today - 7>>, <<Today>>}

ArticleIds == 1..Len(articles)

TitleOf(id) == <<"title", id>>
AbstractOf(id) == <<"abstract", id>>

\* cursor.fetchall() of "SELECT id, title, abstract FROM articles", one row
ArticleRow(id) == <<id, TitleOf(id), AbstractOf(id)>>

\* the dict built from "SELECT article_id, summary FROM article_summaries";
\* the crawler stores the same text as abstract and as summary
summaries == [id \in article_summaries |-> AbstractOf(id)]

\* one card of a page: insert_article, then generate_keywords and
\* insert_summary; keywords_fail: CountVectorizer raises and the except
\* clause of the loop skips insert_summary
parse_articles_and_store(publication_date, keywords_fail) ==
    /\ Len(articles) < MaxArticles
    /\ articles' = Append(articles, [publication_date |-> publication_date])
    /\ article_summaries' =
          IF keywords_fail THEN article_summaries
          ELSE article_summaries \cup {Len(articles) + 1}
    /\ UNCHANGED <<collection, pc, outcome, index_run, search_run, query, now,
                   date_range>>

-----------------------------------------------------------------------------
(* Embedder and fusion *)

D == 768

\* model.encode(text, normalize_embeddings=True): a fixed vector per text
Encode(text) ==
    IF text = <<>> THEN <<0, 3>>
    ELSE IF text[1] = "title" THEN <<text[2], 1>>
    ELSE <<1, text[2]>>

\* weights [0.5, 0.3, 0.2], in tenths
weights == <<5, 3, 2>>

\* a combination that leaves the summary term out
combine_without_summary(title_embedding, abstract_embedding, summary_embedding, w) ==
    [k \in DOMAIN title_embedding |->
        w[1] * title_embedding[k] + w[2] * abstract_embedding[k]]

combine_embeddings(title_embedding, abstract_embedding, summary_embedding, w) ==
    [k \in DOMAIN title_embedding |->
        w[1] * title_embedding[k] + w[2] * abstract_embedding[k]
            + w[3] * summary_embedding[k]]

\* summaries.get(article_id, "")
SummaryGet(article_id) ==
    IF article_id \in DOMAIN summaries THEN summaries[article_id] ELSE <<>>

\* the body of the loop over articles: the combined embedding of one article
CombinedEmbedding(article) ==
    combine_embeddings(Encode(article[2]), Encode(article[3]),
                       Encode(SummaryGet(article[1])), weights)

-----------------------------------------------------------------------------
(* The Milvus collection *)

NoCollection == [exists |-> FALSE, dim |-> 0, entities |-> EmptyBag]

NewCollection(dim) == [exists |-> TRUE, dim |-> dim, entities |-> EmptyBag]

\* what the schema validation of the indexer's connect_to_milvus finds
Found(coll) ==
    IF ~coll.exists THEN "absent"
    ELSE IF coll.dim # D THEN "mismatch"
    ELSE "match"

\* connect_to_milvus that validates the schema but never repairs it
connect_to_milvus_insert_no_repair(coll) ==
    IF coll.exists THEN coll ELSE NewCollection(D)

\* connect_to_milvus of milvus_insert.py: the collection it leaves and returns
connect_to_milvus_insert(coll) ==
    CASE Found(coll) = "absent" -> NewCollection(D)
      [] Found(coll) = "mismatch" -> NewCollection(D)
      [] Found(coll) = "match" -> coll

\* number of entities of the collection with primary key id
IdCount(coll, id) ==
    LET es == {e \in BagToSet(coll.entities) : e.id = id}
        RECURSIVE Sum(_)
        Sum(S) == IF S = {} THEN 0
                  ELSE LET e == CHOOSE x \in S : TRUE
                       IN CopiesIn(e, coll.entities) + Sum(S \ {e})
    IN Sum(es)

EntityIds(coll) == {e.id : e \in BagToSet(coll.entities)}

RECURSIVE RowsBag(_, _)
RowsBag(embeddings, ids) ==
    IF ids = <<>> THEN EmptyBag
    ELSE SetToBag({[id |-> Head(ids), vec |-> Head(embeddings)]})
            (+) RowsBag(Tail(embeddings), Tail(ids))

\* collection.insert([embeddings, ids]): every row becomes a new entity,
\* whether or not its primary key is already there
CollectionInsert(coll, embeddings, ids) ==
    [coll EXCEPT !.entities = @ (+) RowsBag(embeddings, ids)]

\* collection.insert rejects a request that holds no row
InsertRaises(ids) == ids = <<>>

-----------------------------------------------------------------------------
(* Indexer: insert_weighted_embeddings *)

\* batch and fault_at, and fault, are the inputs the call was given
IdleIndex == [batch |-> <<>>, fault_at |-> 0, found |-> "none", ids |-> <<>>,
              embeddings |-> <<>>]
IdleSearch == [fault |-> "none", ids |-> <<>>, articles |-> <<>>]

SeqsUpTo(S, n) == UNION {[1..k -> S] : k \in 0..n}

\* the batches of rows fetch_article_data can hand over, a row possibly twice
Batches == SeqsUpTo({ArticleRow(id) : id \in ArticleIds}, MaxBatch)

\* the lists ids and embeddings after the loop has appended n articles
LoopIds(batch, n) == [i \in 1..n |-> batch[i][1]]
LoopEmbeddings(batch, n) == [i \in 1..n |-> CombinedEmbedding(batch[i])]

\* fault_at = k > 0: model.encode raises on a field of the k-th article
insert_weighted_embeddings(batch, fault_at) ==
    LET opened == connect_to_milvus_insert(collection)
        n == IF fault_at > 0 THEN fault_at - 1 ELSE Len(batch)
        ids == LoopIds(batch, n)
        embeddings == LoopEmbeddings(batch, n)
        raised == fault_at > 0 \/ InsertRaises(ids)
    IN
    /\ BagCardinality(opened.entities) + Len(batch) <= MaxEntities
    /\ pc' = "insert_weighted_embeddings"
    /\ index_run' = [batch |-> batch, fault_at |-> fault_at,
                     found |-> Found(collection), ids |-> ids,
                     embeddings |-> embeddings]
    /\ collection' = IF raised THEN opened
                     ELSE CollectionInsert(opened, embeddings, ids)
    /\ outcome' = IF raised THEN "raised" ELSE "returned"
    /\ search_run' = IdleSearch
    /\ query' = <<>>
    /\ date_range' = None
    /\ UNCHANGED <<articles, article_summaries, now>>

-----------------------------------------------------------------------------
(* Query engine: search_articles *)

RECURSIVE Orderings(_)
Orderings(S) ==
    IF S = {} THEN {<<>>}
    ELSE UNION {{<<x>> \o t : t \in Orderings(S \ {x})} : x \in S}

Range(f) == {f[i] : i \in DOMAIN f}

Occurrences(f, x) == Cardinality({i \in DOMAIN f : f[i] = x})

\* the id lists collection.search can return for a limit: at most limit
\* entities of the collection, in any rank order
SearchHits(coll, limit) ==
    {h \in SeqsUpTo(EntityIds(coll), limit) :
        \A id \in Range(h) : Occurrences(h, id) <= IdCount(coll, id)}

\* BETWEEN that lets a NULL date through
BetweenOrNull(publication_date, dr) ==
    \/ publication_date = NULL
    \/ dr[1] <= publication_date[1] /\ publication_date[1] <= dr[2]

\* articles.publication_date BETWEEN start AND end; NULL never is
Between(publication_date, dr) ==
    /\ publication_date # NULL
    /\ dr[1] <= publication_date[1]
    /\ publication_date[1] <= dr[2]

\* the rows the SELECT of fetch_filtered_articles_by_ids matches, by id
Selected(ids, dr) ==
    {id \in ArticleIds :
        /\ id \in Range(ids)
        /\ dr # None => Between(articles[id].publication_date, dr)}

\* a fetch that gives up when one of the ids has no record
fetch_all_or_nothing(ids, dr) ==
    IF ids = <<>> \/ ~(Range(ids) \subseteq ArticleIds) THEN {<<>>}
    ELSE Orderings(Selected(ids, dr))

\* the lists fetch_filtered_articles_by_ids can return: the SELECT has no
\* ORDER BY, so the rows come in the order the store yields them
fetch_filtered_articles_by_ids(ids, dr) ==
    IF ids = <<>> THEN {<<>>} ELSE Orderings(Selected(ids, dr))

\* connect_to_milvus of milvus_search.py raises: no collection, or load fails
connect_to_milvus_search_raises(coll, fault) ==
    ~coll.exists \/ fault = "load"

\* collection.search raises: a fault of the index, or a query vector whose
\* dimension is not the collection's
SearchRaises(coll, fault) == fault = "search" \/ coll.dim # D

Faults == {"none", "encode", "load", "search"}

SampleQueries == {<<"cancer">>, <<"last", "week">>, <<"Past", "2", "days">>}

search_articles(q, limit, fault) ==
    /\ pc' = "search_articles"
    /\ index_run' = IdleIndex
    /\ query' = q
    /\ IF fault = "encode" \/ connect_to_milvus_search_raises(collection, fault)
       THEN /\ outcome' = "raised"
            /\ search_run' = [IdleSearch EXCEPT !.fault = fault]
            /\ date_range' = None
       ELSE IF SearchRaises(collection, fault)
       THEN /\ outcome' = "returned"
            /\ search_run' = [IdleSearch EXCEPT !.fault = fault]
            /\ date_range' = None
       ELSE \E ids \in SearchHits(collection, limit) :
            LET dr == parse_date_filter(q, now) IN
            \E fetched \in fetch_filtered_articles_by_ids(ids, dr) :
                /\ outcome' = "returned"
                /\ date_range' = dr
                /\ search_run' = [fault |-> fault, ids |-> ids,
                                  articles |-> fetched]
    /\ UNCHANGED <<articles, article_summaries, collection, now>>

-----------------------------------------------------------------------------
(* The pipeline *)

StaleId == MaxArticles + 1

\* the states the collection can be in when the pipeline starts: absent, left
\* by another schema, or left by an earlier indexing of a row since deleted
InitCollections ==
    {NoCollection,
     [exists |-> TRUE, dim |-> OtherDim,
      entities |-> SetToBag({[id |-> StaleId, vec |-> <<0, 0>>]})],
     [exists |-> TRUE, dim |-> D,
      entities |-> SetToBag({[id |-> StaleId, vec |-> <<0, 0>>]})]}

Init ==
    /\ articles = <<>>
    /\ article_summaries = {}
    /\ collection \in InitCollections
    /\ pc = "idle"
    /\ outcome = "none"
    /\ index_run = IdleIndex
    /\ search_run = IdleSearch
    /\ query = <<>>
    /\ now = Today
    /\ date_range = None

\* The three scripts are run one at a time; pc = "idle" between two runs.

\* crawl_all_articles.py, one card of a page
Crawl ==
    /\ pc = "idle"
    /\ \E d \in PubDates, f \in BOOLEAN : parse_articles_and_store(d, f)

\* milvus_insert.py
Index ==
    /\ pc = "idle"
    /\ \E batch \in Batches : \E fault_at \in 0..Len(batch) :
            insert_weighted_embeddings(batch, fault_at)

\* milvus_search.py; the id lists of a smaller limit are among those of
\* MaxLimit
Search ==
    /\ pc = "idle"
    /\ \E q \in SampleQueries, fault \in Faults :
            search_articles(q, MaxLimit, fault)

\* the script ends and its locals are gone; the two stores stay
Exit ==
    /\ pc \in {"insert_weighted_embeddings", "search_articles"}
    /\ pc' = "idle"
    /\ outcome' = "none"
    /\ index_run' = IdleIndex
    /\ search_run' = IdleSearch
    /\ query' = <<>>
    /\ date_range' = None
    /\ UNCHANGED <<articles, article_summaries, collection, now>>

Next == Crawl \/ Index \/ Search \/ Exit

Spec == Init /\ [][Next]_vars

-----------------------------------------------------------------------------
(* parse_date_filter on its own, over every query of the vocabulary *)

\* the queries of k words
Queries(k) == [1..k -> Words]

Clock == Today..(Today + MaxDrift)

InitDate ==
    /\ articles = <<>>
    /\ article_summaries = {}
    /\ collection = NoCollection
    /\ pc = "idle"
    /\ outcome = "none"
    /\ index_run = IdleIndex
    /\ search_run = IdleSearch
    /\ \E k \in 0..MaxQueryLen : query \in Queries(k)
    /\ now \in Clock
    /\ date_range = None

ParseDateFilter ==
    /\ pc = "idle"
    /\ pc' = "parse_date_filter"
    /\ outcome' = "returned"
    /\ date_range' = parse_date_filter(query, now)
    /\ UNCHANGED <<articles, article_summaries, collection, index_run,
                   search_run, query, now>>

NextDate == ParseDateFilter

SpecDate == InitDate /\ [][NextDate]_vars

-----------------------------------------------------------------------------
(* Properties *)

SearchReturned == pc = "search_articles" /\ outcome = "returned"
IndexEnded == pc = "insert_weighted_embeddings"

\* the first position of x in the sequence f
FirstIndex(f, x) == CHOOSE i \in DOMAIN f : f[i] = x /\ \A j \in 1..(i - 1) : f[j] # x

\* C1: search_articles returns the surviving documents in the relative order
\* in which their ids appear in the id list the vector search returned.
RankPreserved ==
    SearchReturned =>
        \A i, j \in DOMAIN search_run.articles :
            i < j => FirstIndex(search_run.ids, search_run.articles[i])
                        < FirstIndex(search_run.ids, search_run.articles[j])

\* C2: the collection holds exactly one entity per indexed document id,
\* however often insert_weighted_embeddings has indexed that id.
OneEntityPerId ==
    \A id \in EntityIds(collection) : IdCount(collection, id) = 1

\* a step of insert_weighted_embeddings
IndexStep == pc = "idle" /\ pc' = "insert_weighted_embeddings"

\* the entities the call wrote
Written(run, result) ==
    IF result = "returned" THEN RowsBag(run.embeddings, run.ids) ELSE EmptyBag

\* C3: after the indexer's connect_to_milvus the collection exists with
\* declared dimension 768; a collection found with another dimension is
\* dropped and recreated, so none of its vectors is left, and a collection
\* found with dimension 768 keeps every vector it held.
SchemaRepair ==
    [][IndexStep =>
        /\ collection'.exists
        /\ collection'.dim = 768
        /\ (collection.exists /\ collection.dim # 768) =>
                collection'.entities = Written(index_run', outcome')
        /\ ~collection.exists =>
                collection'.entities = Written(index_run', outcome')
        /\ (collection.exists /\ collection.dim = 768) =>
                collection'.entities =
                    collection.entities (+) Written(index_run', outcome')
      ]_vars

\* an indexing run found dimension 512 with a vector stored, and left an
\* empty-then-refilled collection of dimension 768
SchemaRepairWitness ==
    /\ IndexEnded
    /\ index_run.found = "mismatch"
    /\ collection.exists /\ collection.dim = 768
    /\ outcome = "returned"
    /\ StaleId \notin EntityIds(collection)

DateParsed == pc = "parse_date_filter"

\* the days of one unit of rule 3, as the claim gives them
UnitDays(w) ==
    CASE StartsWith(Lower(w), "days") -> 1
      [] StartsWith(Lower(w), "weeks") -> 7
      [] StartsWith(Lower(w), "months") -> 30

\* words that carry no temporal meaning
PlainWords == {"cancer"}

Returned == Range(search_run.articles)

\* C5: of the candidate documents, one with a NULL publication_date is in the
\* result exactly when the query gave no date range, and one with a date is
\* in the result under a date range exactly when start <= date <= end.
FilterExclusion ==
    SearchReturned =>
        \A id \in Range(search_run.ids) \cap ArticleIds :
            LET d == articles[id].publication_date IN
            /\ d = NULL => (id \in Returned <=> date_range = None)
            /\ (d # NULL /\ date_range = None) => id \in Returned
            /\ (d # NULL /\ date_range # None) =>
                  (id \in Returned <=>
                      (date_range[1] <= d[1] /\ d[1] <= date_range[2]))

\* under a date range, a candidate without a date was left out and one dated
\* on the first day of the range was kept
FilterExclusionWitness ==
    /\ SearchReturned
    /\ date_range # None
    /\ \E id \in Range(search_run.ids) \cap ArticleIds :
          articles[id].publication_date = NULL /\ id \notin Returned
    /\ \E id \in Returned : articles[id].publication_date = <<date_range[1]>>

\* the vector search of the call answered (no fault, a collection to search)
HitsReturned ==
    /\ pc = "search_articles"
    /\ search_run.fault = "none"
    /\ collection.exists /\ collection.dim = D

\* C6: when the vector search returns ids, some of them without a record in
\* the store, search_articles returns without raising, and the records it
\* returns are exactly those of the returned ids that have a record and pass
\* the date filter: none from outside the id set, none of these left out.
MissingIdTolerance ==
    HitsReturned =>
        /\ outcome = "returned"
        /\ Returned \subseteq Range(search_run.ids)
        /\ Returned \subseteq ArticleIds
        /\ \A id \in Range(search_run.ids) :
              (/\ id \in ArticleIds
               /\ \/ date_range = None
                  \/ /\ articles[id].publication_date # NULL
                     /\ date_range[1] <= articles[id].publication_date[1]
                     /\ articles[id].publication_date[1] <= date_range[2])
              => id \in Returned

\* the vector search returned an id without a record next to one with a
\* record, and the call returned the record
MissingIdToleranceWitness ==
    /\ HitsReturned
    /\ \E id \in Range(search_run.ids) : id \notin ArticleIds
    /\ Returned # {}
    /\ \E id \in ArticleIds : id \notin Range(search_run.ids)

\* the ids of the batch, in order
BatchIds(run) == [i \in DOMAIN run.batch |-> run.batch[i][1]]

\* C7: when the embedder fails on a field of one document of the batch, the
\* run is not aborted: it ends normally and every other document of the
\* batch is written to the collection.
FailureIsolation ==
    (/\ IndexEnded
     /\ index_run.fault_at > 0
     /\ \E i \in DOMAIN index_run.batch :
            BatchIds(index_run)[i] # BatchIds(index_run)[index_run.fault_at])
    =>
        /\ outcome = "returned"
        /\ \A i \in DOMAIN index_run.batch :
              BatchIds(index_run)[i] # BatchIds(index_run)[index_run.fault_at]
                  => IdCount(collection, BatchIds(index_run)[i]) >= 1

\* C8: when the collection is missing, its load fails or the vector search
\* faults, search_articles returns the empty list instead of raising.
SearchFailureNonFatal ==
    (/\ pc = "search_articles"
     /\ \/ ~collection.exists
        \/ search_run.fault \in {"load", "search"})
    => (outcome = "returned" /\ search_run.articles = <<>>)

\* C9: a search whose vector search yields no id returns the empty list
\* without raising, whatever the date range; an indexing run over an empty
\* batch ends without raising, writes nothing and reports zero indexed.
EmptyInputClosure ==
    /\ (HitsReturned /\ search_run.ids = <<>>) =>
          (outcome = "returned" /\ search_run.articles = <<>>)
    /\ (IndexEnded /\ index_run.batch = <<>>) =>
          (outcome = "returned" /\ index_run.ids = <<>>)

\* the summary text of a document, the empty string without a summary row
SummaryText(id) == IF id \in article_summaries THEN AbstractOf(id) ELSE <<>>

\* C10: every vector the indexer computes and writes for a document is
\* 0.5*Encode(title) + 0.3*Encode(abstract) + 0.2*Encode(summary) elementwise
\* (here in tenths), with Encode("") as the summary term of a document
\* without a summary row, and it is stored as computed.
WeightContract ==
    IndexEnded =>
        \A i \in DOMAIN index_run.ids :
            LET id == index_run.ids[i]
                t == Encode(TitleOf(id))
                a == Encode(AbstractOf(id))
                c == Encode(SummaryText(id))
                fused == [k \in 1..2 |-> 5 * t[k] + 3 * a[k] + 2 * c[k]]
            IN
            /\ index_run.embeddings[i] = fused
            /\ outcome = "returned" =>
                  BagIn([id |-> id, vec |-> fused], collection.entities)

\* a run wrote the vector of a document without a summary row and the vector
\* of one with a summary row
WeightContractWitness ==
    /\ IndexEnded
    /\ outcome = "returned"
    /\ \E i \in DOMAIN index_run.ids : index_run.ids[i] \notin article_summaries
    /\ \E i \in DOMAIN index_run.ids : index_run.ids[i] \in article_summaries

\* the query matches none of the rules 1 to 3
NoRuleMatches(q) ==
    /\ ~ContainsPhrase(LowerQuery(q), "last", "week")
    /\ ~ContainsPhrase(LowerQuery(q), "last", "month")
    /\ \A i \in DOMAIN q : ~MatchesAt(q, i)

\* C11: for every query that matches none of the rules 1 to 3, whatever
\* other words it holds, parse_date_filter returns [parsed_date, now] when
\* free-form parsing of the whole query recovers a date, and None only when
\* it recovers none.
FreeFormFallback ==
    (DateParsed /\ NoRuleMatches(query)) =>
        LET parsed_date == DateparserParse(query, now) IN
        date_range = IF parsed_date # None THEN <<parsed_date[1], now>>
                     ELSE None

====
